---- MODULE Spec2Model ----
(***************************************************************************)
(* Model of the URL liveness / Wayback-archive checkers:                   *)
(*   archivechecker.py   (variant "v1": one attempt, no validation)        *)
(*   archivechecker2.py  (variant "v2": retries, one URL role)             *)
(*   archivechecker3.py  (variant "v3": retries, two roles, 4xx/5xx filter)*)
(*   helper_scripts/single_url_archive_checker.py (variant "single")      *)
(* Strings are sequences of one-character strings; the network is the      *)
(* environment and answers each request nondeterministically.              *)
(***************************************************************************)
EXTENDS Integers, Sequences, FiniteSets, TLC

\* ------------------------------------------------------------- bounds
MaxRecords == 2
MaxRows == 2

\* ------------------------------------------------- program constants
MAX_RETRIES_V3 == 10
BACKOFF_FACTOR_V3 == 2
RATE_LIMIT_DELAY_V3 == 5
MAX_RETRIES_V2 == 8
BACKOFF_FACTOR_V2 == 4
RATE_LIMIT_DELAY_V2 == 10
MAX_RETRIES_SINGLE == 8
BACKOFF_FACTOR_SINGLE == 4

Variants == {"v1", "v2", "v3", "single"}
BatchVariants == {"v1", "v2", "v3"}

\* v1 makes one request and never retries (archivechecker.py:28-32).
MAX_RETRIES(v) ==
    CASE v = "v3" -> MAX_RETRIES_V3
      [] v = "v2" -> MAX_RETRIES_V2
      [] v = "single" -> MAX_RETRIES_SINGLE
      [] OTHER -> 1

BACKOFF_FACTOR(v) ==
    CASE v = "v3" -> BACKOFF_FACTOR_V3
      [] v = "v2" -> BACKOFF_FACTOR_V2
      [] v = "single" -> BACKOFF_FACTOR_SINGLE
      [] OTHER -> 1

RATE_LIMIT_DELAY(v) ==
    CASE v = "v3" -> RATE_LIMIT_DELAY_V3
      [] v = "v2" -> RATE_LIMIT_DELAY_V2
      [] OTHER -> 0

\* ------------------------------------------------------------ strings
RECURSIVE Pow(_, _)
Pow(b, e) == IF e = 0 THEN 1 ELSE b * Pow(b, e - 1)

StartsWith(s, p) == Len(s) >= Len(p) /\ SubSeq(s, 1, Len(p)) = p

Drop(s, n) == SubSeq(s, n + 1, Len(s))

Whitespace == {" ", "\n", "\t"}

\* str.strip(): remove leading and trailing whitespace.
RECURSIVE LStrip(_)
LStrip(s) == IF s # <<>> /\ Head(s) \in Whitespace THEN LStrip(Tail(s)) ELSE s

RECURSIVE RStrip(_)
RStrip(s) ==
    IF s # <<>> /\ s[Len(s)] \in Whitespace
    THEN RStrip(SubSeq(s, 1, Len(s) - 1))
    ELSE s

Strip(s) == RStrip(LStrip(s))

HTTP == <<"h", "t", "t", "p", ":", "/", "/">>
HTTPS == <<"h", "t", "t", "p", "s", ":", "/", "/">>
WWW == <<"w", "w", "w", ".">>

\* [^\s]+$ : one or more non-whitespace characters up to the end of the
\* string; Python's $ also matches just before one trailing newline.
NonSpaceToEnd(s) ==
    LET body == IF s # <<>> /\ s[Len(s)] = "\n" THEN SubSeq(s, 1, Len(s) - 1) ELSE s
        strict == s # <<>> /\ \A k \in 1..Len(s) : s[k] \notin Whitespace
    IN  strict \/ (body # <<>> /\ \A k \in 1..Len(body) : body[k] \notin Whitespace)

\* A validation that only looks at the prefix.
is_valid_url_PrefixOnly(url) == \E p \in {HTTP, HTTPS, WWW} : StartsWith(url, p)

is_valid_url(url) ==
    /\ url # <<>>
    /\ \E p \in {HTTP, HTTPS, WWW} : StartsWith(url, p) /\ NonSpaceToEnd(Drop(url, Len(p)))

Letters == {"h", "t", "p", "s", "w", "a", "b", "f"}

\* urlparse(url).scheme is non-empty when the text before the first ":" is a
\* letter followed by scheme characters.
HasScheme(url) ==
    \E k \in 2..Len(url) :
        /\ url[k] = ":"
        /\ \A j \in 1..(k - 1) : url[j] \in Letters

RECURSIVE TakeUntil(_, _)
TakeUntil(s, stops) ==
    IF s = <<>> \/ Head(s) \in stops THEN <<>>
    ELSE <<Head(s)>> \o TakeUntil(Tail(s), stops)

\* urlparse's netloc: the text between "//" after the scheme and the next
\* "/", "?" or "#".
Netloc(url) ==
    LET k == IF HasScheme(url) THEN CHOOSE j \in 2..Len(url) : url[j] = ":" /\ \A m \in 1..(j - 1) : url[m] # ":"
             ELSE 0
        rest == Drop(url, k)
    IN  IF StartsWith(rest, <<"/", "/">>)
        THEN TakeUntil(Drop(rest, 2), {"/", "?", "#"})
        ELSE <<>>

Contains(s, c) == \E k \in 1..Len(s) : s[k] = c

\* urlparse raises ValueError("Invalid IPv6 URL") when the netloc has one
\* square bracket without the other.
UrlparseRaises(url) == Contains(Netloc(url), "[") # Contains(Netloc(url), "]")

\* normalize_url calls urlparse unless the URL starts with "www.".
NormalizeRaises(url) == ~StartsWith(url, WWW) /\ UrlparseRaises(url)

normalize_url(url) ==
    IF StartsWith(url, WWW) THEN HTTP \o url
    ELSE IF ~HasScheme(url) THEN HTTP \o url
    ELSE url

\* ---------------------------------------------------------- snapshots
None == <<>>
Some(x) == <<x>>

Digits == <<"0", "1", "2", "3", "4", "5", "6", "7", "8", "9">>
DigitChars == {Digits[k] : k \in 1..10}
DigitOf(c) == (CHOOSE k \in 1..10 : Digits[k] = c) - 1

\* int(code_str) succeeds on decimal digit strings and raises ValueError on
\* the others the archive sends (such as "-").
IsNumeric(s) == s # <<>> /\ \A k \in 1..Len(s) : s[k] \in DigitChars

RECURSIVE IntOf(_)
IntOf(s) == IF s = <<>> THEN 0 ELSE 10 * IntOf(SubSeq(s, 1, Len(s) - 1)) + DigitOf(s[Len(s)])

\* Python's str < str on digit strings: lexicographic, a proper prefix first.
RECURSIVE StrLess(_, _)
StrLess(a, b) ==
    IF b = <<>> THEN FALSE
    ELSE IF a = <<>> THEN TRUE
    ELSE IF Head(a) # Head(b) THEN DigitOf(Head(a)) < DigitOf(Head(b))
    ELSE StrLess(Tail(a), Tail(b))

\* An insertion that puts an element before the elements of equal key.
RECURSIVE InsertByTs_Unstable(_, _)
InsertByTs_Unstable(sorted, x) ==
    IF sorted = <<>> THEN <<x>>
    ELSE IF ~StrLess(Head(sorted).ts, x.ts) THEN <<x>> \o sorted
    ELSE <<Head(sorted)>> \o InsertByTs_Unstable(Tail(sorted), x)

\* list.sort(key=timestamp) is stable: an element goes after every element
\* whose key is not greater than its own.
RECURSIVE InsertByTs(_, _)
InsertByTs(sorted, x) ==
    IF sorted = <<>> THEN <<x>>
    ELSE IF StrLess(x.ts, Head(sorted).ts) THEN <<x>> \o sorted
    ELSE <<Head(sorted)>> \o InsertByTs(Tail(sorted), x)

\* No sort: the rows stay in response order.
SortByTs_Unsorted(s) == s

RECURSIVE SortByTs(_)
SortByTs(s) ==
    IF s = <<>> THEN <<>>
    ELSE InsertByTs(SortByTs(SubSeq(s, 1, Len(s) - 1)), s[Len(s)])

\* datetime.strptime(ts, "%Y%m%d%H%M%S"): the point in time the digits name.
strptime(ts) == IntOf(ts)

\* dt.strftime("%Y-%m-%d %H:%M:%S"): the digits again, with separators.
strftime(dt) == <<Digits[(dt \div 10) + 1], "-", Digits[(dt % 10) + 1]>>

WAYBACK_WEB == <<"https://web.archive.org/web/">>

\* f"https://web.archive.org/web/{last_ts}/{last_orig}"
SnapshotLink(ts, orig) == WAYBACK_WEB \o ts \o <<"/">> \o orig

HeaderRow == [ts |-> <<"timestamp">>, orig |-> <<"original">>, code |-> <<"statuscode">>]

\* A filter whose range starts one code late.
KeepSnapshot_OffByOne(row) ==
    /\ IsNumeric(row.code)
    /\ ~(400 < IntOf(row.code) /\ IntOf(row.code) < 600)

\* archivechecker3.py: keep a row unless its status code is non-numeric or
\* lies in 400..599.
KeepSnapshot(row) ==
    /\ IsNumeric(row.code)
    /\ ~(400 <= IntOf(row.code) /\ IntOf(row.code) < 600)

RECURSIVE FilterSnapshots(_)
FilterSnapshots(rows) ==
    IF rows = <<>> THEN <<>>
    ELSE IF KeepSnapshot(Head(rows))
         THEN <<Head(rows)>> \o FilterSnapshots(Tail(rows))
         ELSE FilterSnapshots(Tail(rows))

NoResult == [first_seen_dt |-> None, last_seen_dt |-> None, last_snapshot_link |-> None]

\* A summary that builds the reference only when there are several captures.
Summarize_LinkOnlyIfSeveral(snapshots, withLink) ==
    IF snapshots = <<>> THEN NoResult
    ELSE LET sorted == SortByTs(snapshots)
             first == sorted[1]
             last == sorted[Len(sorted)]
         IN  [first_seen_dt |-> Some(strptime(first.ts)),
              last_seen_dt |-> Some(strptime(last.ts)),
              last_snapshot_link |->
                  IF withLink /\ Len(sorted) > 1
                  THEN Some(SnapshotLink(last.ts, last.orig)) ELSE None]

\* First and last element of the snapshots sorted by timestamp.
Summarize(snapshots, withLink) ==
    IF snapshots = <<>> THEN NoResult
    ELSE LET sorted == SortByTs(snapshots)
             first == sorted[1]
             last == sorted[Len(sorted)]
         IN  [first_seen_dt |-> Some(strptime(first.ts)),
              last_seen_dt |-> Some(strptime(last.ts)),
              last_snapshot_link |->
                  IF withLink THEN Some(SnapshotLink(last.ts, last.orig)) ELSE None]

\* What get_wayback_info makes of a decoded, well-formed response body.
ParseResponse(v, data) ==
    IF Len(data) < 2 THEN NoResult
    ELSE IF v = "v3" THEN Summarize(FilterSnapshots(Tail(data)), TRUE)
    ELSE Summarize(Tail(data), FALSE)

\* ------------------------------------------------------ output fields
EMPTY == <<>>
NOTPROVIDED == <<"NOTPROVIDED">>
NOTFOUND == <<"NOTFOUND">>
NOSTATUSCODE == <<"NOSTATUSCODE">>
\* v1 and v2 write no Last_URL_Snapshot column.
NoColumn == <<"(no column)">>

\* An invalid URL answered like a valid one with no probe answer and no
\* snapshot.
InvalidInfo_Blank(v) ==
    [first_seen |-> EMPTY, last_seen |-> EMPTY,
     status_code |-> IF v = "v3" THEN NOSTATUSCODE ELSE NOTFOUND,
     last_snapshot_link |-> IF v = "v3" THEN EMPTY ELSE NoColumn]

\* process_url's answer for an empty or invalid URL.
InvalidInfo(v) ==
    IF v = "v3"
    THEN [first_seen |-> NOTPROVIDED, last_seen |-> NOTPROVIDED,
          status_code |-> NOTPROVIDED, last_snapshot_link |-> EMPTY]
    ELSE [first_seen |-> NOTFOUND, last_seen |-> NOTFOUND,
          status_code |-> NOTFOUND, last_snapshot_link |-> NoColumn]

\* The status column: the code, or what the variant writes for None.
StatusField(v, status) ==
    IF status # None THEN status
    ELSE CASE v = "v3" -> NOSTATUSCODE
           [] v = "v2" -> NOTFOUND
           [] OTHER -> EMPTY

\* process_url's answer for a valid URL: dates formatted when present.
ValidInfo(v, status, wb) ==
    [first_seen |-> IF wb.first_seen_dt # None THEN strftime(wb.first_seen_dt[1]) ELSE EMPTY,
     last_seen |-> IF wb.last_seen_dt # None THEN strftime(wb.last_seen_dt[1]) ELSE EMPTY,
     status_code |-> StatusField(v, status),
     last_snapshot_link |->
         IF v # "v3" THEN NoColumn
         ELSE IF wb.last_snapshot_link # None THEN wb.last_snapshot_link[1] ELSE EMPTY]

\* archivechecker2.py never processes the second role and writes "" for it.
SkippedInfo ==
    [first_seen |-> EMPTY, last_seen |-> EMPTY, status_code |-> EMPTY,
     last_snapshot_link |-> NoColumn]

\* ------------------------------------------------------------- inputs
Url_www_a == <<"w", "w", "w", ".", "a">>
Url_http_b == <<"h", "t", "t", "p", ":", "/", "/", "b">>
Url_padded == <<" ", "h", "t", "t", "p", "s", ":", "/", "/", "a", "\n">>
Url_bare == <<"a">>
Url_spaced == <<"w", "w", "w", ".", "a", " ", "b">>
Url_bracket == <<"h", "t", "t", "p", ":", "/", "/", "[", "a">>

RecordKinds ==
    << [progetto |-> Url_www_a, vetrina |-> Url_http_b],
       [progetto |-> Url_padded, vetrina |-> EMPTY],
       [progetto |-> Url_bare, vetrina |-> Url_spaced],
       [progetto |-> EMPTY, vetrina |-> Url_www_a],
       [progetto |-> Url_bracket, vetrina |-> EMPTY] >>

\* The input table of n records that starts at kind o.
InputTable(o, n) == [k \in 1..n |-> RecordKinds[((o + k - 2) % Len(RecordKinds)) + 1]]

RECURSIVE NonEmptyRows(_)
NonEmptyRows(t) ==
    IF t = <<>> THEN <<>>
    ELSE IF Strip(Head(t).progetto) # <<>>
         THEN <<Head(t)>> \o NonEmptyRows(Tail(t))
         ELSE NonEmptyRows(Tail(t))

\* The records in memory after the input is read: v1 keeps the rows whose
\* first column is not blank; v2 and v3 keep every data row.
ReadInput(v, table) == IF v = "v1" THEN NonEmptyRows(table) ELSE table

\* The URL roles a variant processes per record.
NumRoles(v) == IF v = "v3" THEN 2 ELSE 1

RoleUrl(rec, r) == IF r = 1 THEN rec.progetto ELSE rec.vetrina

\* ------------------------------------------------------------ archive
\* The archive of a batch run: one live capture and one 404 capture.
BatchPool ==
    {[ts |-> <<"0", "1">>, orig |-> <<"a">>, code |-> <<"2", "0", "0">>],
     [ts |-> <<"1", "0">>, orig |-> <<"b">>, code |-> <<"4", "0", "4">>]}

\* Captures with equal and different timestamps, with each status code on
\* either side of the 400..599 range, and with a non-numeric status code.
QueryPool ==
    {[ts |-> <<"0", "1">>, orig |-> <<"a">>, code |-> <<"2", "0", "0">>],
     [ts |-> <<"1", "0">>, orig |-> <<"b">>, code |-> <<"2", "0", "0">>],
     [ts |-> <<"1", "0">>, orig |-> <<"a">>, code |-> <<"3", "9", "9">>],
     [ts |-> <<"1", "1">>, orig |-> <<"b">>, code |-> <<"4", "0", "4">>],
     [ts |-> <<"0", "1">>, orig |-> <<"b">>, code |-> <<"-">>],
     [ts |-> <<"1", "1">>, orig |-> <<"a">>, code |-> <<"6", "0", "0">>],
     [ts |-> <<"0", "1">>, orig |-> <<"a">>, code |-> <<"4", "0", "0">>],
     [ts |-> <<"1", "1">>, orig |-> <<"b">>, code |-> <<"5", "9", "9">>]}

SeqsUpTo(S, n) == UNION {[1..k -> S] : k \in 0..n}

\* The decoded bodies the index can answer with: an empty list, or the header
\* row followed by up to MaxRows captures, in any order.
Responses(S) == {<<>>} \cup {<<HeaderRow>> \o r : r \in SeqsUpTo(S, MaxRows)}

LiveCodes == {<<"200">>}

\* The ways requests.get of the liveness probe raises a RequestException.
ProbeFailures == {"timeout", "connection", "dns", "malformed"}

NoProbe == [kind |-> "none", code |-> None]

\* What can happen to the liveness request: an answer with a status code, or
\* a failure.
ProbeAnswers ==
    {[kind |-> "ok", code |-> c] : c \in LiveCodes}
        \cup {[kind |-> f, code |-> None] : f \in ProbeFailures}

NetFailures == {"neterr", "httperr"}
Outcomes == NetFailures \cup {"decode", "badts", "badrow", "ok"}

\* -------------------------------------------------------------- state
VARIABLES
    variant,         \* which script runs
    newJsonError,    \* the installed requests raises requests.JSONDecodeError
    pool,            \* the captures the archive index holds
    rows,            \* the input records in memory
    pc,              \* position of the script
    i,               \* 1-based index of the record being processed
    role,            \* URL role being processed (1 progetto, 2 vetrina)
    url_value,       \* process_url's argument
    normalized_url,  \* the URL the network calls are made on
    status_code,     \* check_url_status's answer
    attempt,         \* loop variable of the retry loop
    requests,        \* archive requests issued for this role
    probes,          \* liveness requests issued for this role
    sleeps,          \* backoff sleeps taken in this query, in order
    lastOutcome,     \* how the latest archive request ended
    data,            \* the latest decoded response body
    wayback,         \* get_wayback_info's answer
    queryCase,       \* why the query ended
    info,            \* process_url's answer for this role
    probe,           \* the answer to the liveness request just made
    probed_url,      \* the URL the liveness request was made on
    queried_url,     \* the URL the latest archive request was made on
    infos,           \* the answers of the roles of this record so far
    cases,           \* queryCase of each role of this record so far
    out,             \* data rows of the output table, in file order
    header,          \* the output table has its header row
    delays,          \* rate-limit sleeps taken so far
    fpc,             \* position of the check of the two URL functions
    raw_url,         \* the string given to is_valid_url
    url_ok,          \* is_valid_url's answer
    normalized_once, \* normalize_url(raw_url)
    normalized_twice, \* normalize_url(normalize_url(raw_url))
    timed,           \* whether the clock of this run advances
    now,             \* what time.time() returns
    start_time,      \* the reading taken before the loop
    iteration_start, \* the reading taken at the top of the loop body
    running_time_sum, \* the durations summed by archivechecker2/3.py
    processing_times, \* the durations kept by archivechecker.py
    durations,       \* the duration of each record processed so far
    estimate         \* the estimate on the progress line

vars == <<variant, newJsonError, pool, rows, pc, i, role, url_value, normalized_url,
          status_code, attempt, requests, probes, sleeps, lastOutcome, data,
          wayback, queryCase, info, probe, probed_url, queried_url, infos, cases,
          out, header, delays, fpc, raw_url, url_ok, normalized_once,
          normalized_twice, timed, now, start_time, iteration_start,
          running_time_sum, processing_times, durations, estimate>>

roleVars == <<url_value, normalized_url, status_code, attempt, requests, probes,
              sleeps, lastOutcome, data, wayback, queryCase, info, probe,
              probed_url, queried_url>>

envVars == <<variant, newJsonError, pool, rows, timed>>

meterVars == <<start_time, iteration_start, running_time_sum, processing_times,
               durations, estimate>>

clockVars == <<now, meterVars>>

urlVars == <<fpc, raw_url, url_ok, normalized_once, normalized_twice>>

\* The estimate of the total duration as a fraction num / den, and the time
\* elapsed since the start that is subtracted from it for the remaining time.
\* remaining is the numerator of the remaining time over the same den.
NoEstimate == [shown |-> FALSE, num |-> 0, den |-> 1, elapsed |-> 0, remaining |-> 0]

\* The seconds a sleep or a request adds to the clock.
Elapse(d) == IF timed THEN d ELSE 0

\* What one liveness request can take.
Latencies == IF timed THEN {0, 1} ELSE {0}

RECURSIVE SumSeq(_)
SumSeq(s) == IF s = <<>> THEN 0 ELSE Head(s) + SumSeq(Tail(s))

InitRun ==
    /\ pc = "init"
    /\ i = 0
    /\ role = 0
    /\ url_value = EMPTY
    /\ normalized_url = EMPTY
    /\ status_code = None
    /\ attempt = 0
    /\ requests = 0
    /\ probes = 0
    /\ sleeps = <<>>
    /\ lastOutcome = "none"
    /\ data = <<>>
    /\ wayback = NoResult
    /\ queryCase = "none"
    /\ info = SkippedInfo
    /\ probe = NoProbe
    /\ probed_url = EMPTY
    /\ queried_url = EMPTY
    /\ infos = <<>>
    /\ cases = <<>>
    /\ out = <<>>
    /\ header = FALSE
    /\ delays = 0
    /\ now = 0
    /\ start_time = 0
    /\ iteration_start = 0
    /\ running_time_sum = 0
    /\ processing_times = <<>>
    /\ durations = <<>>
    /\ estimate = NoEstimate

\* A call of normalize_url ends with a string or with urlparse's ValueError.
NotCalled == [raised |-> FALSE, value |-> EMPTY]

NormalizeResult(url) ==
    IF NormalizeRaises(url) THEN [raised |-> TRUE, value |-> EMPTY]
    ELSE [raised |-> FALSE, value |-> normalize_url(url)]

\* The URL functions are not called on their own during a run.
UrlIdle ==
    /\ fpc = "off"
    /\ raw_url = EMPTY
    /\ url_ok = FALSE
    /\ normalized_once = NotCalled
    /\ normalized_twice = NotCalled

\* A batch run over an input table, or one run of the single-URL helper.
Init ==
    /\ variant \in Variants
    /\ newJsonError \in BOOLEAN
    /\ pool = BatchPool
    /\ \E o \in 1..Len(RecordKinds), n \in 0..MaxRecords :
          /\ variant = "single" => n = 1
          /\ rows = ReadInput(variant, InputTable(o, n))
    /\ timed = FALSE
    /\ InitRun
    /\ UrlIdle

\* One URL checked against an archive with captures of every kind.
InitQuery ==
    /\ variant \in Variants
    /\ newJsonError \in BOOLEAN
    /\ pool = QueryPool
    /\ rows = InputTable(2, 1)
    /\ timed = FALSE
    /\ InitRun
    /\ UrlIdle

\* ------------------------------------------------------------ actions

\* The script starts: an empty input ends it before the output file is
\* opened; otherwise the header row is written and the loop begins.
Start ==
    /\ pc = "init"
    /\ IF Len(rows) = 0
       THEN /\ pc' = "exited"
            /\ UNCHANGED <<i, role, header, start_time, iteration_start>>
       ELSE /\ pc' = "process_url"
            /\ i' = 1
            /\ role' = 1
            /\ header' = (variant \in BatchVariants)
            /\ start_time' = now
            /\ iteration_start' = now
    /\ UNCHANGED <<envVars, urlVars, now, running_time_sum, processing_times, durations,
                   estimate, roleVars, infos, cases, out, delays>>

\* A process_url that goes to the archive query without the liveness probe.
ProcessUrl_SkipsProbe ==
    /\ pc = "process_url"
    /\ LET u == Strip(RoleUrl(rows[i], role)) IN
          /\ url_value' = u
          /\ IF variant # "v1" /\ ~is_valid_url(u)
             THEN /\ info' = InvalidInfo(variant)
                  /\ queryCase' = "invalid"
                  /\ normalized_url' = EMPTY
                  /\ attempt' = 0
                  /\ pc' = "returned"
             ELSE IF variant # "v1" /\ NormalizeRaises(u)
             THEN /\ info' = SkippedInfo
                  /\ queryCase' = "none"
                  /\ normalized_url' = EMPTY
                  /\ attempt' = 0
                  /\ pc' = "crashed"
             ELSE /\ info' = SkippedInfo
                  /\ queryCase' = "none"
                  /\ normalized_url' = IF variant = "v1" THEN u ELSE normalize_url(u)
                  /\ attempt' = 1
                  /\ pc' \in {"check_url_status", "get_wayback_info"}
    /\ status_code' = None
    /\ requests' = 0
    /\ probes' = 0
    /\ sleeps' = <<>>
    /\ lastOutcome' = "none"
    /\ data' = <<>>
    /\ wayback' = NoResult
    /\ probe' = NoProbe
    /\ probed_url' = EMPTY
    /\ queried_url' = EMPTY
    /\ UNCHANGED <<envVars, urlVars, clockVars, i, role, infos, cases, out, header, delays>>

\* process_url up to its first network call: strip, validate, normalize.
\* v1 does neither validation nor normalization.
ProcessUrl ==
    /\ pc = "process_url"
    /\ LET u == Strip(RoleUrl(rows[i], role)) IN
          /\ url_value' = u
          /\ IF variant # "v1" /\ ~is_valid_url(u)
             THEN /\ info' = InvalidInfo(variant)
                  /\ queryCase' = "invalid"
                  /\ normalized_url' = EMPTY
                  /\ pc' = "returned"
             ELSE IF variant # "v1" /\ NormalizeRaises(u)
             THEN /\ info' = SkippedInfo
                  /\ queryCase' = "none"
                  /\ normalized_url' = EMPTY
                  /\ pc' = "crashed"
             ELSE /\ info' = SkippedInfo
                  /\ queryCase' = "none"
                  /\ normalized_url' = IF variant = "v1" THEN u ELSE normalize_url(u)
                  /\ pc' = "check_url_status"
    /\ status_code' = None
    /\ attempt' = 0
    /\ requests' = 0
    /\ probes' = 0
    /\ sleeps' = <<>>
    /\ lastOutcome' = "none"
    /\ data' = <<>>
    /\ wayback' = NoResult
    /\ probe' = NoProbe
    /\ probed_url' = EMPTY
    /\ queried_url' = EMPTY
    /\ UNCHANGED <<envVars, urlVars, clockVars, i, role, infos, cases, out, header, delays>>

\* check_url_status: one GET; a RequestException gives None.
\* A probe that asks a second time when the first request fails.
CheckUrlStatus_RetriesOnce ==
    /\ pc = "check_url_status"
    /\ probes' = probes + 1
    /\ probed_url' = normalized_url
    /\ \E answer \in ProbeAnswers :
          /\ probe' = answer
          /\ status_code' = IF answer.kind = "ok" THEN answer.code ELSE None
          /\ IF answer.kind # "ok" /\ probes = 0
             THEN attempt' = attempt /\ pc' = "check_url_status"
             ELSE attempt' = 1 /\ pc' = "get_wayback_info"
    /\ \E latency \in Latencies : now' = now + latency
    /\ UNCHANGED <<envVars, urlVars, meterVars, i, role, url_value, normalized_url, requests, sleeps,
                   lastOutcome, data, wayback, queryCase, info, queried_url, infos,
                   cases, out, header, delays>>

\* A probe whose failure ends the role without an archive query.
CheckUrlStatus_GatesQuery ==
    /\ pc = "check_url_status"
    /\ probes' = probes + 1
    /\ probed_url' = normalized_url
    /\ \E answer \in ProbeAnswers :
          /\ probe' = answer
          /\ status_code' = IF answer.kind = "ok" THEN answer.code ELSE None
          /\ pc' = IF answer.kind = "ok" THEN "get_wayback_info" ELSE "got_wayback_info"
    /\ attempt' = 1
    /\ \E latency \in Latencies : now' = now + latency
    /\ UNCHANGED <<envVars, urlVars, meterVars, i, role, url_value, normalized_url, requests, sleeps,
                   lastOutcome, data, wayback, queryCase, info, queried_url, infos,
                   cases, out, header, delays>>

CheckUrlStatus ==
    /\ pc = "check_url_status"
    /\ probes' = probes + 1
    /\ probed_url' = normalized_url
    /\ \E answer \in ProbeAnswers :
          /\ probe' = answer
          /\ status_code' = IF answer.kind = "ok" THEN answer.code ELSE None
    /\ attempt' = 1
    /\ pc' = "get_wayback_info"
    /\ \E latency \in Latencies : now' = now + latency
    /\ UNCHANGED <<envVars, urlVars, meterVars, i, role, url_value, normalized_url, requests, sleeps,
                   lastOutcome, data, wayback, queryCase, info, queried_url, infos,
                   cases, out, header, delays>>

\* An except clause that takes transport errors only, not the HTTPError of
\* raise_for_status.
IsRequestException_TransportOnly(v, outcome, newLib) ==
    \/ outcome = "neterr"
    \/ outcome = "decode" /\ newLib /\ v # "v1"

\* Whether the except clause for requests.RequestException takes the error.
IsRequestException(v, outcome, newLib) ==
    \/ outcome \in NetFailures
    \/ outcome = "decode" /\ newLib /\ v # "v1"

\* Whether the error leaves get_wayback_info uncaught: v1 guards only the
\* request itself, and the helper has no catch-all clause.
Uncaught(v, outcome) ==
    \/ v = "v1" /\ outcome \in {"decode", "badts", "badrow"}
    \/ v = "single" /\ outcome = "badrow"

\* A backoff that starts at BACKOFF_FACTOR instead of 1.
BackoffSleep_Late(v, n) == Pow(BACKOFF_FACTOR(v), n)

\* sleep_time = BACKOFF_FACTOR ** (attempt - 1)
BackoffSleep(v, n) == Pow(BACKOFF_FACTOR(v), n - 1)

\* A retry loop that takes a body of fewer than 2 elements as a failed
\* request.
WaybackAttempt_ShortRetries ==
    /\ pc = "get_wayback_info"
    /\ requests' = requests + 1
    /\ \E outcome \in Outcomes, body \in Responses(pool) :
          /\ outcome # "ok" => body = <<>>
          /\ lastOutcome' = outcome
          /\ data' = body
          /\ IF outcome = "ok" /\ Len(body) >= 2
             THEN /\ wayback' = ParseResponse(variant, body)
                  /\ queryCase' = IF wayback'.first_seen_dt = None THEN "nodata" ELSE "found"
                  /\ pc' = "got_wayback_info"
                  /\ UNCHANGED <<attempt, sleeps>>
             ELSE IF outcome = "ok" \/ IsRequestException(variant, outcome, newJsonError)
             THEN IF attempt = MAX_RETRIES(variant)
                  THEN /\ wayback' = NoResult
                       /\ queryCase' = "failed"
                       /\ pc' = "got_wayback_info"
                       /\ UNCHANGED <<attempt, sleeps>>
                  ELSE /\ sleeps' = Append(sleeps, BackoffSleep(variant, attempt))
                       /\ attempt' = attempt + 1
                       /\ pc' = "get_wayback_info"
                       /\ UNCHANGED <<wayback, queryCase>>
             ELSE IF Uncaught(variant, outcome)
             THEN /\ pc' = "crashed"
                  /\ UNCHANGED <<wayback, queryCase, attempt, sleeps>>
             ELSE /\ wayback' = NoResult
                  /\ queryCase' = "error"
                  /\ pc' = "got_wayback_info"
                  /\ UNCHANGED <<attempt, sleeps>>
    /\ probe' = NoProbe
    /\ queried_url' = normalized_url
    /\ now' = now + Elapse(IF Len(sleeps') > Len(sleeps) THEN sleeps'[Len(sleeps')] ELSE 0)
    /\ UNCHANGED <<envVars, urlVars, meterVars, i, role, url_value, normalized_url, status_code, probes,
                   info, probed_url, infos, cases, out, header, delays>>

\* One pass of the retry loop of get_wayback_info: the request, and what
\* the try block or the except clause that takes its outcome does.
WaybackAttempt ==
    /\ pc = "get_wayback_info"
    /\ requests' = requests + 1
    /\ \E outcome \in Outcomes, body \in Responses(pool) :
          /\ outcome # "ok" => body = <<>>
          /\ lastOutcome' = outcome
          /\ data' = body
          /\ IF outcome = "ok"
             THEN /\ wayback' = ParseResponse(variant, body)
                  /\ queryCase' = IF wayback'.first_seen_dt = None THEN "nodata" ELSE "found"
                  /\ pc' = "got_wayback_info"
                  /\ UNCHANGED <<attempt, sleeps>>
             ELSE IF IsRequestException(variant, outcome, newJsonError)
             THEN IF attempt = MAX_RETRIES(variant)
                  THEN /\ wayback' = NoResult
                       /\ queryCase' = "failed"
                       /\ pc' = "got_wayback_info"
                       /\ UNCHANGED <<attempt, sleeps>>
                  ELSE /\ sleeps' = Append(sleeps, BackoffSleep(variant, attempt))
                       /\ attempt' = attempt + 1
                       /\ pc' = "get_wayback_info"
                       /\ UNCHANGED <<wayback, queryCase>>
             ELSE IF Uncaught(variant, outcome)
             THEN /\ pc' = "crashed"
                  /\ UNCHANGED <<wayback, queryCase, attempt, sleeps>>
             ELSE /\ wayback' = NoResult
                  /\ queryCase' = "error"
                  /\ pc' = "got_wayback_info"
                  /\ UNCHANGED <<attempt, sleeps>>
    /\ probe' = NoProbe
    /\ queried_url' = normalized_url
    /\ now' = now + Elapse(IF Len(sleeps') > Len(sleeps) THEN sleeps'[Len(sleeps')] ELSE 0)
    /\ UNCHANGED <<envVars, urlVars, meterVars, i, role, url_value, normalized_url, status_code, probes,
                   info, probed_url, infos, cases, out, header, delays>>

\* A process_url that marks the dates of a query that ran out of retries.
FormatResult_FlagsFailure ==
    /\ pc = "got_wayback_info"
    /\ info' = IF queryCase = "failed"
               THEN [ValidInfo(variant, status_code, wayback) EXCEPT
                        !.first_seen = NOTFOUND, !.last_seen = NOTFOUND]
               ELSE ValidInfo(variant, status_code, wayback)
    /\ pc' = "returned"
    /\ UNCHANGED <<envVars, urlVars, clockVars, i, role, url_value, normalized_url, status_code, attempt,
                   requests, probes, sleeps, lastOutcome, data, wayback, queryCase,
                   probe, probed_url, queried_url, infos, cases, out, header, delays>>

\* A process_url that fills the empty dates of a role from the row written
\* before.
FormatResult_ReusesEarlier ==
    /\ pc = "got_wayback_info"
    /\ info' = IF Len(out) > 0 /\ wayback = NoResult
               THEN [ValidInfo(variant, status_code, wayback) EXCEPT
                        !.first_seen = out[Len(out)].progetto.first_seen,
                        !.last_seen = NOTFOUND]
               ELSE ValidInfo(variant, status_code, wayback)
    /\ pc' = "returned"
    /\ UNCHANGED <<envVars, urlVars, clockVars, i, role, url_value, normalized_url, status_code, attempt,
                   requests, probes, sleeps, lastOutcome, data, wayback, queryCase,
                   probe, probed_url, queried_url, infos, cases, out, header, delays>>

\* The rest of process_url: the dates formatted, the fields assembled.
FormatResult ==
    /\ pc = "got_wayback_info"
    /\ info' = ValidInfo(variant, status_code, wayback)
    /\ pc' = "returned"
    /\ UNCHANGED <<envVars, urlVars, clockVars, i, role, url_value, normalized_url, status_code, attempt,
                   requests, probes, sleeps, lastOutcome, data, wayback, queryCase,
                   probe, probed_url, queried_url, infos, cases, out, header, delays>>

\* The caller takes process_url's answer and goes on to the next role, or
\* to the output row; the helper prints and ends.
Return ==
    /\ pc = "returned"
    /\ infos' = Append(infos, info)
    /\ cases' = Append(cases, queryCase)
    /\ IF variant = "single" THEN pc' = "done" /\ role' = role
       ELSE IF role < NumRoles(variant) THEN pc' = "process_url" /\ role' = role + 1
       ELSE pc' = "write" /\ role' = role
    /\ UNCHANGED <<envVars, urlVars, clockVars, i, roleVars, out, header, delays>>

\* The record's row with its derived columns.
OutputRow(v, rec, is) ==
    [rec |-> rec,
     progetto |-> is[1],
     vetrina |-> IF v = "v3" THEN is[2] ELSE SkippedInfo]

\* A row that replaces the rows written before it.
WriteRow_Overwrite ==
    /\ pc = "write"
    /\ out' = <<OutputRow(variant, rows[i], infos)>>
    /\ pc' = IF variant = "v1" THEN "progress" ELSE "rate_limit"
    /\ UNCHANGED <<envVars, urlVars, clockVars, i, role, roleVars, infos, cases, header, delays>>

\* writer.writerow(row)
WriteRow ==
    /\ pc = "write"
    /\ out' = Append(out, OutputRow(variant, rows[i], infos))
    /\ pc' = IF variant = "v1" THEN "progress" ELSE "rate_limit"
    /\ UNCHANGED <<envVars, urlVars, clockVars, i, role, roleVars, infos, cases, header, delays>>

\* A delay taken once per role that reached the network.
RateLimit_PerRole ==
    /\ pc = "rate_limit"
    /\ delays' = delays + Cardinality({k \in 1..Len(cases) : cases[k] # "invalid"})
    /\ pc' = "progress"
    /\ now' = now + Elapse(RATE_LIMIT_DELAY(variant))
    /\ UNCHANGED <<envVars, urlVars, meterVars, i, role, roleVars, infos, cases, out, header>>

\* time.sleep(RATE_LIMIT_DELAY)
RateLimit ==
    /\ pc = "rate_limit"
    /\ delays' = delays + 1
    /\ pc' = "progress"
    /\ now' = now + Elapse(RATE_LIMIT_DELAY(variant))
    /\ UNCHANGED <<envVars, urlVars, meterVars, i, role, roleVars, infos, cases, out, header>>

\* The estimate archivechecker.py shows: from the third record on, from the
\* durations of the first three records.
EstimateV1(times, total, elapsed, n) ==
    IF n >= 3 /\ Len(times) >= 3
    THEN [shown |-> TRUE, num |-> SumSeq(times) * total, den |-> Len(times),
          elapsed |-> elapsed,
          remaining |-> SumSeq(times) * total - elapsed * Len(times)]
    ELSE NoEstimate

\* The estimate archivechecker2.py and archivechecker3.py show after record n.
EstimateV2(sum, total, elapsed, n) ==
    [shown |-> TRUE, num |-> sum * total, den |-> n, elapsed |-> elapsed,
     remaining |-> sum * total - elapsed * n]

\* A progress line that keeps only the latest duration.
Progress_LatestOnly ==
    /\ pc = "progress"
    /\ infos' = <<>>
    /\ cases' = <<>>
    /\ LET iteration_time == now - iteration_start IN
          /\ durations' = Append(durations, iteration_time)
          /\ IF variant = "v1"
             THEN /\ processing_times' = <<iteration_time>>
                  /\ running_time_sum' = running_time_sum
                  /\ estimate' = EstimateV1(processing_times', Len(rows), now - start_time, i)
             ELSE /\ running_time_sum' = iteration_time
                  /\ processing_times' = processing_times
                  /\ estimate' = EstimateV2(running_time_sum', Len(rows), now - start_time, i)
    /\ IF i < Len(rows)
       THEN /\ i' = i + 1
            /\ role' = 1
            /\ iteration_start' = now
            /\ pc' = "process_url"
       ELSE /\ pc' = "done"
            /\ UNCHANGED <<i, role, iteration_start>>
    /\ UNCHANGED <<envVars, urlVars, now, start_time, roleVars, out, header, delays>>

\* The progress line with its estimate, then the next record or the end of
\* the loop. The readings of one progress line fall in the same instant.
Progress ==
    /\ pc = "progress"
    /\ infos' = <<>>
    /\ cases' = <<>>
    /\ LET iteration_time == now - iteration_start IN
          /\ durations' = Append(durations, iteration_time)
          /\ IF variant = "v1"
             THEN /\ processing_times' =
                       IF i <= 3 THEN Append(processing_times, iteration_time)
                       ELSE processing_times
                  /\ running_time_sum' = running_time_sum
                  /\ estimate' = EstimateV1(processing_times', Len(rows), now - start_time, i)
             ELSE /\ running_time_sum' = running_time_sum + iteration_time
                  /\ processing_times' = processing_times
                  /\ estimate' = EstimateV2(running_time_sum', Len(rows), now - start_time, i)
    /\ IF i < Len(rows)
       THEN /\ i' = i + 1
            /\ role' = 1
            /\ iteration_start' = now
            /\ pc' = "process_url"
       ELSE /\ pc' = "done"
            /\ UNCHANGED <<i, role, iteration_start>>
    /\ UNCHANGED <<envVars, urlVars, now, start_time, roleVars, out, header, delays>>

Next ==
    \/ Start
    \/ ProcessUrl
    \/ CheckUrlStatus
    \/ WaybackAttempt
    \/ FormatResult
    \/ Return
    \/ WriteRow
    \/ RateLimit
    \/ Progress

Spec == Init /\ [][Next]_vars

SpecQuery == InitQuery /\ [][Next]_vars

\* ------------------------------------------------ runs with a clock
MaxEtaRecords == 4

\* The input of a timed run: for archivechecker.py a list of URLs, for the
\* others one record that reaches the network followed by records that do
\* not.
EtaTable(v, n) ==
    [k \in 1..n |-> IF v = "v1" \/ k = 1 THEN RecordKinds[2] ELSE RecordKinds[3]]

\* A batch run whose clock advances, over an archive without captures.
InitEta ==
    /\ variant \in BatchVariants
    /\ newJsonError = FALSE
    /\ pool = {}
    /\ \E n \in 0..MaxEtaRecords : rows = ReadInput(variant, EtaTable(variant, n))
    /\ timed = TRUE
    /\ InitRun
    /\ UrlIdle

SpecEta == InitEta /\ [][Next]_vars

\* ------------------------------------------- the URL functions alone
MaxSuffix == 2

UrlPrefixes == {<<>>, HTTP, HTTPS, WWW, <<"f", "t", "p", ":", "/", "/">>}

UrlAlphabet == {"a", " ", "\n", "[", ":", "/"}

\* The strings the two functions are called on: a prefix and up to
\* MaxSuffix further characters.
UrlInputs == {p \o t : p \in UrlPrefixes, t \in SeqsUpTo(UrlAlphabet, MaxSuffix)}

InitUrl ==
    /\ variant = "v3"
    /\ newJsonError = FALSE
    /\ pool = BatchPool
    /\ rows = <<>>
    /\ timed = FALSE
    /\ InitRun
    /\ fpc = "start"
    /\ raw_url \in UrlInputs
    /\ url_ok = FALSE
    /\ normalized_once = NotCalled
    /\ normalized_twice = NotCalled

ValidateUrl ==
    /\ fpc = "start"
    /\ url_ok' = is_valid_url(raw_url)
    /\ fpc' = "validated"
    /\ UNCHANGED <<envVars, clockVars, pc, i, role, roleVars, infos, cases, out, header, delays,
                   raw_url, normalized_once, normalized_twice>>

\* normalize_url on an input that is_valid_url accepted.
NormalizeUrl ==
    /\ fpc = "validated"
    /\ url_ok
    /\ normalized_once' = NormalizeResult(raw_url)
    /\ fpc' = "normalized"
    /\ UNCHANGED <<envVars, clockVars, pc, i, role, roleVars, infos, cases, out, header, delays,
                   raw_url, url_ok, normalized_twice>>

\* normalize_url on its own result.
NormalizeAgain ==
    /\ fpc = "normalized"
    /\ ~normalized_once.raised
    /\ normalized_twice' = NormalizeResult(normalized_once.value)
    /\ fpc' = "done"
    /\ UNCHANGED <<envVars, clockVars, pc, i, role, roleVars, infos, cases, out, header, delays,
                   raw_url, url_ok, normalized_once>>

NextUrl ==
    \/ ValidateUrl
    \/ NormalizeUrl
    \/ NormalizeAgain

SpecUrl == InitUrl /\ [][NextUrl]_vars

\* ------------------------------------------------------------- claims
Retrying == {"v2", "v3", "single"}

\* C1: in the retry loop of get_wayback_info / get_wayback_snapshots the
\* k-th failed request is followed by a sleep of BACKOFF_FACTOR^(k-1) seconds
\* (1 then 4 for a factor of 4); when every request fails the query ends
\* after exactly MAX_RETRIES requests and MAX_RETRIES-1 sleeps, with no sleep
\* after the last request, and returns the empty result.
C1_BackoffSchedule ==
    variant \in Retrying =>
        /\ pc = "get_wayback_info" =>
              /\ requests = attempt - 1
              /\ attempt <= MAX_RETRIES(variant)
              /\ Len(sleeps) = requests
        /\ \A k \in 1..Len(sleeps) :
              sleeps[k] = IF k = 1 THEN 1 ELSE BACKOFF_FACTOR(variant) * sleeps[k - 1]
        /\ (BACKOFF_FACTOR(variant) = 4 /\ Len(sleeps) >= 2) =>
              (sleeps[1] = 1 /\ sleeps[2] = 4)
        /\ (pc = "got_wayback_info" /\ queryCase = "failed") =>
              /\ requests = MAX_RETRIES(variant)
              /\ Len(sleeps) = MAX_RETRIES(variant) - 1
              /\ wayback = NoResult

C1_Witness ==
    /\ pc = "got_wayback_info"
    /\ queryCase = "failed"
    /\ variant = "v2"
    /\ ~newJsonError
    /\ lastOutcome \in NetFailures
    /\ requests = 8
    /\ sleeps = <<1, 4, 16, 64, 256, 1024, 4096>>

\* C2: no failure of a sub-step of one URL role aborts a batch run.
C2_NeverAborts ==
    (variant \in BatchVariants /\ lastOutcome # "none") => pc # "crashed"

\* C3: a response body that cannot be decoded ends get_wayback_info at
\* once: no sleep follows it and no further request is made.
C3_DecodeEndsQuery ==
    (variant \in {"v2", "v3"} /\ lastOutcome = "decode") =>
        /\ pc # "get_wayback_info"
        /\ Len(sleeps) = requests - 1

Validating == {"v2", "v3"}

ThreeCases == {"invalid", "nodata", "failed"}

\* C4 as claimed: the derived fields of a role differ between any two of the
\* cases invalid URL, query answered without snapshot, query failed after
\* all retries.
C4_ThreeCasesDistinct ==
    (pc = "write" /\ variant \in Validating) =>
        \A a, b \in 1..Len(infos) :
            (cases[a] \in ThreeCases /\ cases[b] \in ThreeCases /\ cases[a] # cases[b])
                => infos[a] # infos[b]

\* C4 amended: the derived fields of an invalid URL differ from those of
\* every role whose query was answered without snapshot or failed after all
\* retries; those two cases give the same first seen, last seen and
\* reference, all empty.
C4_InvalidDistinct ==
    /\ (pc = "returned" /\ variant \in Validating) =>
          /\ queryCase = "invalid" => info.first_seen \in {NOTPROVIDED, NOTFOUND}
          /\ queryCase \in {"nodata", "failed"} =>
                /\ info.first_seen = EMPTY
                /\ info.last_seen = EMPTY
                /\ info.last_snapshot_link \in {EMPTY, NoColumn}
    /\ (pc = "write" /\ variant \in Validating) =>
          \A a, b \in 1..Len(infos) :
              /\ (cases[a] = "invalid" /\ cases[b] \in {"nodata", "failed"})
                    => infos[a] # infos[b]
              /\ (cases[a] = "nodata" /\ cases[b] = "failed") =>
                    /\ infos[a].first_seen = infos[b].first_seen
                    /\ infos[a].last_seen = infos[b].last_seen
                    /\ infos[a].last_snapshot_link = infos[b].last_snapshot_link

C4_Witness ==
    /\ pc = "write"
    /\ variant = "v3"
    /\ cases = <<"nodata", "failed">>
    /\ infos[1] = infos[2]

InvalidInputs == {EMPTY, Url_bare, Url_spaced}

\* C5 as claimed: for an empty or invalid URL all four derived fields are
\* the "not provided" sentinel and no network call is made for the role.
C5_AllFourSentinel ==
    (pc = "returned" /\ variant = "v3" /\ url_value \in InvalidInputs) =>
        /\ info.first_seen = NOTPROVIDED
        /\ info.last_seen = NOTPROVIDED
        /\ info.status_code = NOTPROVIDED
        /\ info.last_snapshot_link = NOTPROVIDED
        /\ probes = 0
        /\ requests = 0

\* C5 amended: for an empty or invalid URL first seen, last seen and status
\* code are the sentinel (NOTPROVIDED in v3, NOTFOUND in v2), the reference
\* of v3 is the empty string, and neither the liveness probe nor the archive
\* query is issued for the role.
C5_InvalidSkipsNetwork ==
    (pc = "returned" /\ variant \in Validating /\ url_value \in InvalidInputs) =>
        LET sentinel == IF variant = "v3" THEN NOTPROVIDED ELSE NOTFOUND IN
        /\ ~is_valid_url(url_value)
        /\ info.first_seen = sentinel
        /\ info.last_seen = sentinel
        /\ info.status_code = sentinel
        /\ variant = "v3" => info.last_snapshot_link = EMPTY
        /\ probes = 0
        /\ requests = 0
        /\ queryCase = "invalid"

C5_Witness ==
    /\ pc = "returned"
    /\ variant = "v3"
    /\ url_value = EMPTY
    /\ role = 2
    /\ info.first_seen = NOTPROVIDED
    /\ probes = 0

\* The point in time a timestamp of the archive names.
TsNum(ts) ==
    CASE ts = <<"0", "1">> -> 1
      [] ts = <<"1", "0">> -> 10
      [] ts = <<"1", "1">> -> 11

\* Captures with a numeric status code outside 400..599.
Qualifies(row) == row.code \in {<<"2", "0", "0">>, <<"3", "9", "9">>, <<"6", "0", "0">>}

\* Positions in the answer of the captures that count for the variant.
Qualifying(v, body) ==
    {k \in 2..Len(body) : v = "v3" => Qualifies(body[k])}

Answered == pc = "got_wayback_info" /\ lastOutcome = "ok"

\* C6: with the client-side filter of archivechecker3.py a capture counts if
\* and only if its status code is numeric and outside 400..599; a
\* non-numeric code drops that capture only and the query still succeeds;
\* when every capture is dropped the result is all null.
C6_ClientSideFilter ==
    (Answered /\ variant = "v3") =>
        LET kept == {k \in 2..Len(data) : Qualifies(data[k])} IN
        /\ queryCase \in {"nodata", "found"}
        /\ (kept = {}) <=> (wayback = NoResult)
        /\ (kept = {}) <=> (queryCase = "nodata")
        /\ kept # {} =>
              /\ \E k \in kept : wayback.first_seen_dt = <<TsNum(data[k].ts)>>
              /\ \E k \in kept :
                    /\ wayback.last_seen_dt = <<TsNum(data[k].ts)>>
                    /\ wayback.last_snapshot_link =
                           << <<"https://web.archive.org/web/">> \o data[k].ts
                                  \o <<"/">> \o data[k].orig >>
              /\ \A k \in kept :
                    /\ wayback.first_seen_dt[1] <= TsNum(data[k].ts)
                    /\ TsNum(data[k].ts) <= wayback.last_seen_dt[1]

C6_Witness ==
    /\ Answered
    /\ variant = "v3"
    /\ Len(data) = 3
    /\ data[2].code = <<"-">>
    /\ data[3].code = <<"4", "0", "4">>
    /\ wayback = NoResult

\* The answer with its captures reordered by p.
Reordered(body, p) == <<body[1]>> \o [k \in 1..(Len(body) - 1) |-> body[p[k + 1]]]

\* C7: first_seen is the earliest and last_seen the latest timestamp of the
\* qualifying captures, whatever their order in the answer; with no
\* qualifying capture every field is null.
C7_FirstLastSeen ==
    Answered =>
        LET q == Qualifying(variant, data) IN
        /\ q = {} => wayback = NoResult
        /\ q # {} =>
              /\ \E k \in q : wayback.first_seen_dt = <<TsNum(data[k].ts)>>
              /\ \E k \in q : wayback.last_seen_dt = <<TsNum(data[k].ts)>>
              /\ \A k \in q :
                    /\ wayback.first_seen_dt[1] <= TsNum(data[k].ts)
                    /\ TsNum(data[k].ts) <= wayback.last_seen_dt[1]
        /\ Len(data) >= 2 =>
              \A p \in Permutations(2..Len(data)) :
                  LET other == ParseResponse(variant, Reordered(data, p)) IN
                  /\ other.first_seen_dt = wayback.first_seen_dt
                  /\ other.last_seen_dt = wayback.last_seen_dt

C7_Witness ==
    /\ Answered
    /\ variant = "v2"
    /\ Len(data) = 3
    /\ data[2].ts = <<"1", "0">>
    /\ data[3].ts = <<"0", "1">>
    /\ wayback.first_seen_dt = <<1>>
    /\ wayback.last_seen_dt = <<10>>

\* C8: the reference of archivechecker3.py is built from one qualifying
\* capture: the one with the latest timestamp and, among captures tied on
\* it, the last in response order; its timestamp part is last_seen.
C8_LinkFromLastSnapshot ==
    (Answered /\ variant = "v3") =>
        LET q == Qualifying("v3", data) IN
        /\ q = {} => wayback.last_snapshot_link = None
        /\ q # {} =>
              LET last == CHOOSE k \in q :
                              \A j \in q :
                                  \/ TsNum(data[j].ts) < TsNum(data[k].ts)
                                  \/ (TsNum(data[j].ts) = TsNum(data[k].ts) /\ j <= k)
              IN  /\ wayback.last_snapshot_link =
                         << <<"https://web.archive.org/web/">> \o data[last].ts
                                \o <<"/">> \o data[last].orig >>
                  /\ wayback.last_seen_dt = <<TsNum(data[last].ts)>>

C8_Witness ==
    /\ Answered
    /\ variant = "v3"
    /\ Len(data) = 3
    /\ data[2] = [ts |-> <<"1", "0">>, orig |-> <<"b">>, code |-> <<"2", "0", "0">>]
    /\ data[3] = [ts |-> <<"1", "0">>, orig |-> <<"a">>, code |-> <<"3", "9", "9">>]
    /\ wayback.last_snapshot_link =
           << <<"https://web.archive.org/web/", "1", "0", "/", "a">> >>

Delaying == {"v2", "v3"}

\* C9: archivechecker2.py and archivechecker3.py take the rate-limit delay
\* exactly once per record, after the record's row is written and before any
\* network call of the next record, however many roles of the record reached
\* the network; a finished run of N records has taken N delays.
C9_OneDelayPerRecord ==
    variant \in Delaying =>
        /\ pc \in {"process_url", "check_url_status", "get_wayback_info",
                   "got_wayback_info", "returned", "write"} =>
              (delays = i - 1 /\ Len(out) = i - 1)
        /\ pc = "rate_limit" => (delays = i - 1 /\ Len(out) = i)
        /\ pc = "progress" => (delays = i /\ Len(out) = i)
        /\ pc = "done" => delays = Len(rows)

C9_Witness ==
    /\ variant = "v3"
    /\ pc = "done"
    /\ Len(rows) = 2
    /\ delays = 2
    /\ out[1].progetto.first_seen = NOTPROVIDED
    /\ out[1].vetrina.first_seen = NOTPROVIDED
    /\ out[2].progetto.first_seen = NOTPROVIDED
    /\ out[2].vetrina.first_seen # NOTPROVIDED

\* C10: the rows written so far are one row for each of the first k input
\* records, in input order; a written row is never changed or removed; a
\* finished batch run has written a row for every record.
C10_RowsArePrefix ==
    /\ [](variant \in BatchVariants =>
             /\ Len(out) <= Len(rows)
             /\ \A k \in 1..Len(out) : out[k].rec = rows[k]
             /\ pc \in {"process_url", "check_url_status", "get_wayback_info",
                        "got_wayback_info", "returned", "write"} => Len(out) = i - 1
             /\ pc \in {"done", "exited"} => Len(out) = Len(rows))
    /\ [][/\ Len(out') >= Len(out)
          /\ \A k \in 1..Len(out) : out'[k] = out[k]]_vars

C10_Witness ==
    /\ variant = "v1"
    /\ pc = "done"
    /\ Len(rows) = 2
    /\ Len(out) = 2
    /\ out[1].rec = rows[1]
    /\ out[2].rec = rows[2]
    /\ rows[1] # rows[2]

\* C11: a decoded body of fewer than 2 elements ends the query on that
\* attempt with the zero-snapshot result: the loop is left, the case is "no
\* data" and not "failed", and neither a sleep nor a further request follows
\* the answer.
C11_ShortBodyIsZeroSnapshots ==
    (lastOutcome = "ok" /\ Len(data) < 2) =>
        /\ pc \notin {"get_wayback_info", "crashed"}
        /\ wayback = NoResult
        /\ queryCase = "nodata"
        /\ requests = attempt
        /\ Len(sleeps) = requests - 1

C11_Witness ==
    /\ Answered
    /\ variant = "v3"
    /\ data = <<HeaderRow>>
    /\ requests = 1
    /\ sleeps = <<>>
    /\ wayback = NoResult

\* What each script writes in the status column when the probe returned None.
StatusSentinel(v) ==
    CASE v = "v3" -> <<"NOSTATUSCODE">>
      [] v = "v2" -> <<"NOTFOUND">>
      [] OTHER -> <<>>

\* C12: check_url_status makes one request per call and never a second one;
\* whatever way the request fails, the call returns None and the run goes on
\* to the archive query; an answered request returns its status code; the
\* role's status field is the code, or the status sentinel for None.
C12_ProbeOnceNeverThrows ==
    /\ probes <= 1
    /\ probe.kind # "none" =>
          /\ pc = "get_wayback_info"
          /\ probes = 1
          /\ requests = 0
          /\ probe.kind \in ProbeFailures => status_code = None
          /\ probe.kind = "ok" => status_code = probe.code /\ probe.code \in LiveCodes
    /\ (pc = "returned" /\ queryCase # "invalid") =>
          /\ probes = 1
          /\ info.status_code = IF status_code = None THEN StatusSentinel(variant)
                                 ELSE status_code

C12_Witness ==
    /\ variant = "v3"
    /\ pc = "returned"
    /\ probes = 1
    /\ status_code = None
    /\ info.status_code = NOSTATUSCODE
    /\ queryCase = "found"

\* The three archive-derived fields of a role's answer.
ArchiveFields(r) == <<r.first_seen, r.last_seen, r.last_snapshot_link>>

\* C13: a valid role whose query ran out of retries gets the same first
\* seen, last seen and reference as one whose query was answered with no
\* snapshot: all empty (the scripts without the reference column have none
\* in either case), also side by side in the two roles of one record.
C13_FailedLikeZeroSnapshots ==
    /\ (pc = "returned" /\ queryCase \in {"failed", "nodata"}) =>
          ArchiveFields(info) =
              <<EMPTY, EMPTY, IF variant = "v3" THEN EMPTY ELSE NoColumn>>
    /\ \A j, k \in 1..Len(infos) :
          (cases[j] = "failed" /\ cases[k] = "nodata") =>
              ArchiveFields(infos[j]) = ArchiveFields(infos[k])

C13_Witness ==
    /\ variant = "v3"
    /\ pc = "returned"
    /\ cases = <<"nodata">>
    /\ queryCase = "failed"
    /\ requests = 10
    /\ infos[1].first_seen = info.first_seen
    /\ infos[1].last_snapshot_link = info.last_snapshot_link

\* An empty input ends the run with no probe, no query, no delay and no
\* data row.
EmptyInputDoesNothing ==
    Len(rows) = 0 =>
        /\ pc \in {"init", "exited"}
        /\ probes = 0
        /\ requests = 0
        /\ delays = 0
        /\ out = <<>>

\* C14: a run over zero records ends at once without probe, query or delay,
\* and leaves an output table that holds the header row and no data row.
C14_EmptyInputHeaderOnly ==
    (Len(rows) = 0 /\ pc = "exited") =>
        /\ EmptyInputDoesNothing
        /\ header

\* C15: an HTTP error status of the archive index is retried like a network
\* failure: while attempts remain the loop sleeps the backoff of that attempt
\* and asks again; when the last attempt got it, the query has ended with the
\* failed (empty) result after MAX_RETRIES requests and the run goes on.
C15_HttpErrorRetried ==
    (variant # "v1" /\ lastOutcome = "httperr") =>
        /\ pc # "crashed"
        /\ requests <= MAX_RETRIES(variant)
        /\ IF requests < MAX_RETRIES(variant)
           THEN /\ pc = "get_wayback_info"
                /\ attempt = requests + 1
                /\ Len(sleeps) = requests
                /\ sleeps[requests] = Pow(BACKOFF_FACTOR(variant), requests - 1)
           ELSE /\ pc # "get_wayback_info"
                /\ queryCase = "failed"
                /\ wayback = NoResult
                /\ Len(sleeps) = requests - 1

C15_Witness ==
    /\ variant = "v3"
    /\ lastOutcome = "httperr"
    /\ pc = "write"
    /\ requests = 10
    /\ sleeps = <<1, 2, 4, 8, 16, 32, 64, 128, 256>>
    /\ queryCase = "failed"
    /\ Len(infos) = 2

\* C17: for an input that is_valid_url accepts, normalize_url returns a
\* string that begins with http:// or https://; for an input beginning with
\* www. the result begins with http://www.; for an input that carries a
\* scheme, normalizing again changes nothing and the result is the input.
C17_NormalizeContract ==
    (fpc \in {"normalized", "done"}) =>
        /\ ~normalized_once.raised
        /\ StartsWith(normalized_once.value, HTTP) \/ StartsWith(normalized_once.value, HTTPS)
        /\ StartsWith(raw_url, WWW) => StartsWith(normalized_once.value, HTTP \o WWW)
        /\ (fpc = "done" /\ (StartsWith(raw_url, HTTP) \/ StartsWith(raw_url, HTTPS))) =>
              /\ ~normalized_twice.raised
              /\ normalized_twice.value = normalized_once.value
              /\ normalized_once.value = raw_url

\* What C18 says is_valid_url accepts: a prefix followed by one or more
\* characters, none of them whitespace.
SaidValid(s) ==
    /\ s # <<>>
    /\ \E p \in {HTTP, HTTPS, WWW} :
          /\ StartsWith(s, p)
          /\ Len(s) > Len(p)
          /\ \A k \in (Len(p) + 1)..Len(s) : s[k] \notin Whitespace

\* C18: is_valid_url is true exactly for the non-empty inputs that start
\* with http://, https:// or www. followed by one or more characters none
\* of which is whitespace; an input with a trailing newline is rejected.
C18_ValidIffShape ==
    fpc # "start" => (url_ok <=> SaidValid(raw_url))

\* The counts C19 gives for a run: a record at a time, its row written
\* once, per role at most one liveness request and at most MAX_RETRIES
\* archive requests.
RunWithinBounds ==
    /\ i \in 0..Len(rows)
    /\ Len(out) \in {i - 1, i} \cap 0..Len(rows)
    /\ probes <= 1
    /\ requests <= MAX_RETRIES(variant)
    /\ pc = "done" => Len(out) = Len(rows)

\* C19: a batch run never stops short of Done (every state that is not the
\* end of the run has a next step), and keeps within the counts above.
C19_RunReachesDone ==
    variant \in BatchVariants =>
        /\ pc \in {"done", "exited"} \/ ENABLED Next
        /\ RunWithinBounds

\* The steps of process_url for one role.
RoleSteps ==
    {"process_url", "check_url_status", "get_wayback_info", "got_wayback_info",
     "returned"}

\* The order of the steps inside one role, as a state predicate.
RoleOrder ==
    /\ pc = "check_url_status" => probes = 0 /\ requests = 0
    /\ probes = 1 =>
          /\ probed_url = normalized_url
          /\ variant # "v1" =>
                /\ is_valid_url(url_value)
                /\ normalized_url = normalize_url(url_value)
                /\ StartsWith(normalized_url, HTTP) \/ StartsWith(normalized_url, HTTPS)
    /\ requests > 0 => probes = 1 /\ queried_url = normalized_url
    /\ (pc \in {"got_wayback_info", "returned"} /\ queryCase # "invalid") =>
          probes = 1 /\ requests >= 1
    /\ (variant \in BatchVariants /\ pc \in RoleSteps) =>
          Len(out) = i - 1 /\ Len(infos) = role - 1
    /\ pc = "write" => Len(infos) = NumRoles(variant) /\ Len(out) = i - 1

\* C20: within a valid role the URL is validated and normalized, then the
\* liveness request is made, then the archive requests, both on the
\* normalized URL, then the fields are assembled; the record's row is
\* written in the one step that follows the end of its last role.
C20_RoleStepOrder ==
    /\ []RoleOrder
    /\ [][Len(out') # Len(out) =>
            /\ pc = "write"
            /\ Len(infos) = NumRoles(variant)
            /\ out' = Append(out, OutputRow(variant, rows[i], infos))]_vars

C20_Witness ==
    /\ variant = "v3"
    /\ pc = "write"
    /\ Len(infos) = 2
    /\ Len(out) = i - 1
    /\ url_value = Url_www_a
    /\ normalized_url = HTTP \o Url_www_a
    /\ probed_url = normalized_url
    /\ queried_url = normalized_url
    /\ probes = 1
    /\ requests = 2

\* The latest archive request ended in something other than a network-level
\* failure: an answer, or an error of decoding or parsing.
NotNetworkFailure == lastOutcome \notin (NetFailures \cup {"none"})

\* The query ended on its latest attempt: the requests made equal the
\* attempt's index and the sleeps are the backoffs of the attempts before.
EndedOnThisAttempt ==
    /\ pc # "get_wayback_info"
    /\ requests = attempt
    /\ Len(sleeps) = requests - 1
    /\ \A k \in 1..Len(sleeps) : sleeps[k] = Pow(BACKOFF_FACTOR(variant), k - 1)

\* C23: in get_wayback_info the first attempt that does not raise a
\* network-level failure ends the query: no request and no sleep follows it.
C23_FirstAnswerEndsQuery ==
    (variant \in Validating /\ NotNetworkFailure) => EndedOnThisAttempt

\* The point in time a formatted date stands for.
DateOf(s) == 10 * DigitOf(s[1]) + DigitOf(s[3])

\* C24: the answer of archivechecker3.py's process_url for a valid URL has
\* first seen, last seen and reference all empty or all non-empty, and in
\* the second case first seen is not later than last seen.
C24_AllOrNoneOrdered ==
    (variant = "v3" /\ pc = "returned" /\ queryCase # "invalid") =>
        \/ /\ info.first_seen = EMPTY
           /\ info.last_seen = EMPTY
           /\ info.last_snapshot_link = EMPTY
        \/ /\ info.first_seen # EMPTY
           /\ info.last_seen # EMPTY
           /\ info.last_snapshot_link # EMPTY
           /\ DateOf(info.first_seen) <= DateOf(info.last_seen)

C24_Witness ==
    /\ variant = "v3"
    /\ pc = "returned"
    /\ queryCase = "found"
    /\ Len(data) = 3
    /\ data[2].ts = <<"1", "1">>
    /\ info.first_seen = <<"0", "-", "1">>
    /\ info.last_seen = <<"1", "-", "1">>
    /\ info.last_snapshot_link # EMPTY

\* C25: the archive query is made for a valid URL whatever the liveness
\* probe gave; the status field is set from the probe's answer alone and
\* first seen, last seen and reference from the query's answer alone.
C25_ProbeDoesNotGateQuery ==
    /\ [](/\ (variant # "v1" /\ pc \in {"got_wayback_info", "returned"}
                               /\ queryCase # "invalid") =>
                probes = 1 /\ requests >= 1
          /\ (variant # "v1" /\ pc = "returned" /\ queryCase # "invalid") =>
                /\ info.status_code =
                       IF status_code = None THEN StatusSentinel(variant) ELSE status_code
                /\ info.first_seen =
                       IF wayback.first_seen_dt = None THEN EMPTY
                       ELSE strftime(wayback.first_seen_dt[1])
                /\ info.last_seen =
                       IF wayback.last_seen_dt = None THEN EMPTY
                       ELSE strftime(wayback.last_seen_dt[1])
                /\ variant = "v3" =>
                       info.last_snapshot_link =
                           IF wayback.last_snapshot_link = None THEN EMPTY
                           ELSE wayback.last_snapshot_link[1])
    /\ [][pc = "check_url_status" =>
            /\ pc' = "get_wayback_info"
            /\ wayback' = wayback
            /\ requests' = requests]_vars
    /\ [][pc = "get_wayback_info" => status_code' = status_code]_vars

C25_Witness ==
    /\ variant = "v2"
    /\ pc = "returned"
    /\ status_code = None
    /\ requests = 1
    /\ queryCase = "found"
    /\ info.status_code = NOTFOUND
    /\ info.first_seen # EMPTY

\* The derived fields of a role as a function of the script, the role's URL,
\* the probe's answer and the answer that ended the archive query.
DerivedFields(v, url, status, outcome, body) ==
    IF v # "v1" /\ ~is_valid_url(url) THEN InvalidInfo(v)
    ELSE ValidInfo(v, status, IF outcome = "ok" THEN ParseResponse(v, body) ELSE NoResult)

\* C22: the derived columns are a function of the input URL and of the
\* network answers only: whatever the row's position, the rows written
\* before and the delays and retries taken, a role's fields are
\* DerivedFields of its URL and answers, and the row written for a record
\* is made of its roles' fields and nothing else.
C22_DerivedFieldsAreFunction ==
    /\ [](pc = "returned" =>
             info = DerivedFields(variant, url_value, status_code, lastOutcome, data))
    /\ [][infos' # infos =>
            \/ infos' = <<>>
            \/ /\ infos' = Append(infos, info)
               /\ url_value = Strip(RoleUrl(rows[i], role))]_vars
    /\ [][out' # out => out' = Append(out, OutputRow(variant, rows[i], infos))]_vars

C22_Witness ==
    /\ variant = "v3"
    /\ pc = "returned"
    /\ i = 2
    /\ role = 1
    /\ Len(out) = 1
    /\ delays = 1
    /\ url_value = Strip(Url_padded)
    /\ out[1].progetto.first_seen # EMPTY
    /\ lastOutcome = "ok"
    /\ requests = 3
    /\ info = DerivedFields("v3", Strip(Url_padded), status_code, "ok", data)
    /\ info.first_seen = EMPTY

\* The estimate shown is (sum / n) * total and what remains of it after the
\* time elapsed, as fractions over estimate.den.
EstimateIs(sum, n, total) ==
    /\ estimate.shown
    /\ estimate.num * n = sum * total * estimate.den
    /\ estimate.remaining = estimate.num - estimate.elapsed * estimate.den

\* C21 as claimed: after each processed record the estimate shown comes
\* from the sum of the durations of all records processed so far, each
\* with its rate-limit delay in it.
C21_EstimateFromAllDurations ==
    (variant \in BatchVariants /\ Len(durations) >= 1) =>
        /\ EstimateIs(SumSeq(durations), Len(durations), Len(rows))
        /\ \A k \in 1..Len(durations) : durations[k] >= Elapse(RATE_LIMIT_DELAY(variant))

\* C21 amended: archivechecker2.py and archivechecker3.py show after each
\* record the estimate (sum of all durations so far / records so far) *
\* total, each duration covering the record's rate-limit delay;
\* archivechecker.py shows an estimate from the third record on only, and
\* computes it from the durations of the first three records. The elapsed
\* time is the reading of that moment less the reading before the loop.
C21_EstimatePerScript ==
    /\ []((variant \in BatchVariants /\ Len(durations) >= 1) =>
             IF variant \in Delaying
             THEN /\ EstimateIs(SumSeq(durations), Len(durations), Len(rows))
                  /\ \A k \in 1..Len(durations) :
                        durations[k] >= Elapse(RATE_LIMIT_DELAY(variant))
             ELSE /\ estimate.shown <=> Len(durations) >= 3
                  /\ estimate.shown =>
                        EstimateIs(SumSeq(SubSeq(durations, 1, 3)), 3, Len(rows)))
    /\ [][durations' # durations =>
            /\ durations' = Append(durations, now - iteration_start)
            /\ Len(durations') = i
            /\ estimate'.shown => estimate'.elapsed = now - start_time]_vars

C21_Witness ==
    /\ variant = "v3"
    /\ Len(rows) = 3
    /\ durations = <<8, 5>>
    /\ estimate.shown
    /\ estimate.num = 39
    /\ estimate.den = 2
    /\ estimate.elapsed = 13
    /\ estimate.remaining = 13

====
